---- MODULE Spec2Model ----
(***************************************************************************)
(* A model of src/src/perfect.rs: the hash accumulator PerfectHashState    *)
(* (write, get_u, get_v), the byte counter, gen_table and the retry loop   *)
(* of HashMap::new.                                                        *)
(*                                                                         *)
(* A key is modelled by its byte encoding, the bytes its Hash              *)
(* implementation feeds to the hash::Writer.  uint is modelled as an       *)
(* unsigned word of WordBits bits: checked_add fails above UintMax and     *)
(* the unchecked product wraps.                                            *)
(*                                                                         *)
(* The crate `graph` is not part of this repository.  Its graph is         *)
(* modelled as a vertex set and a list of directed edges (the code calls   *)
(* insert_directed_edge), and is_acyclic as the absence of a directed      *)
(* cycle.                                                                  *)
(***************************************************************************)
EXTENDS Integers, Sequences, FiniteSets, TLC

\* ---------------------------------------------------------------- bounds

\* Most known keys handed to HashMap::new.
MaxM == 2
\* Most known keys in the specification SpecFew.
MaxFewM == 1
\* Longest byte encoding of a key.
MaxKeyLen == 2
\* Largest byte value of the encodings (bytes are 0 or MaxByte).
MaxByte == 5
\* iters counts trials up to MaxIters and then stays there.
MaxIters == 1
\* Width of the modelled uint.
WordBits == 4
\* Largest n of a free-standing accumulator (HashSpec).
HMaxN == 3
\* Longest seed table of a free-standing accumulator (HashSpec).
HMaxLen == 2
\* Most bytes absorbed by a free-standing accumulator (HashSpec).
MaxAbsorb == 3
\* Longest chunk handed to one write call (HashSpec).
MaxChunk == 2

UintMax == 2^WordBits - 1

ByteVals == {0, MaxByte}

SeqsUpTo(S, k) == UNION {[1..j -> S] : j \in 0..k}

Keys == SeqsUpTo(ByteVals, MaxKeyLen)

Min(a, b) == IF a < b THEN a ELSE b

\* ---------------------------------------------------------------- state

VARIABLES
  known_vals,  \* HashMap::new: the argument, a sequence of keys
  pc,          \* HashMap::new: position in the function
  t1,          \* HashMap::new: the trial's first seed table
  t2,          \* HashMap::new: the trial's second seed table
  g,           \* HashMap::new: the trial's graph
  acyclic_g,   \* HashMap::new: the accepted graph
  iters,       \* HashMap::new: trial counter
  hstate,      \* a free-standing PerfectHashState
  absorbed,    \* all bytes handed to hstate's write so far, in order
  h_pc,        \* "absorbing", then "read" once get_u/get_v were read
  h_f          \* <<f1, f2>> as read from hstate

vars == <<known_vals, pc, t1, t2, g, acyclic_g, iters, hstate, absorbed, h_pc, h_f>>

cvars == <<known_vals, pc, t1, t2, g, acyclic_g, iters>>
hvars == <<hstate, absorbed, h_pc, h_f>>

\* ------------------------------------------------- PerfectHashState

\* fail is "none" while the accumulator is usable and names the panic
\* after expect("should not overflow") fired.
PerfectHashState_new(tab1, tab2, n, m) ==
  [t1 |-> tab1, t2 |-> tab2, max_length |-> Len(tab1),
   n |-> n, m |-> m, i |-> 0, u |-> 0, v |-> 0, fail |-> "none"]

\* The unchecked product of two uints.
mul(a, b) == (a * b) % (UintMax + 1)

\* The same loop with the copy-paste slip of reading t1 for v.
RECURSIVE write_loop_t1_twice(_, _, _)
write_loop_t1_twice(self, bytes, k) ==
  IF k > Len(bytes) \/ self.i + (k - 1) >= self.max_length
  THEN self
  ELSE LET idx == self.i + (k - 1)
           bu  == bytes[k]
           su  == self.u + mul(self.t1[idx + 1], bu)
           sv  == self.v + mul(self.t1[idx + 1], bu)
       IN  IF su > UintMax \/ sv > UintMax
           THEN [self EXCEPT !.fail = "overflow"]
           ELSE write_loop_t1_twice([self EXCEPT !.u = su, !.v = sv], bytes, k + 1)

\* The body of write's for loop, from the k-th byte on: bytes are zipped
\* with range(self.i, self.max_length), so the k-th byte (1-based) meets
\* table index self.i + k - 1 (0-based) and the loop ends with the shorter
\* of the two.
RECURSIVE write_loop(_, _, _)
write_loop(self, bytes, k) ==
  IF k > Len(bytes) \/ self.i + (k - 1) >= self.max_length
  THEN self
  ELSE LET idx == self.i + (k - 1)
           bu  == bytes[k]
           su  == self.u + mul(self.t1[idx + 1], bu)
           sv  == self.v + mul(self.t2[idx + 1], bu)
       IN  IF su > UintMax \/ sv > UintMax
           THEN [self EXCEPT !.fail = "overflow"]
           ELSE write_loop([self EXCEPT !.u = su, !.v = sv], bytes, k + 1)

\* write with the zip started at table index 0 on every call.
write_from_zero(self, bytes) ==
  LET r == write_loop([self EXCEPT !.i = 0], bytes, 1)
  IN  IF r.fail # "none" THEN [r EXCEPT !.i = self.i]
      ELSE [r EXCEPT !.i = Min(self.i + Len(bytes), self.max_length)]

write(self, bytes) ==
  LET r == write_loop(self, bytes, 1)
  IN  IF r.fail # "none" THEN r
      ELSE [r EXCEPT !.i = Min(self.i + Len(bytes), self.max_length)]

get_u(self) == self.u % self.n

get_v(self) == self.v % self.n

\* ------------------------------------------------------- ByteCounter

ByteCounter_new == [i |-> 0]

ByteCounter_write(c, bytes) == [c EXCEPT !.i = @ + Len(bytes)]

get_count(c) == c.i

\* --------------------------------------------------------- gen_table

\* The possible results of gen_table(rng, n, m).  The iterator is lazy:
\* x % n is evaluated once per element taken, so only m > 0 with n = 0
\* divides by zero.
gen_table_eager(n, m) ==
  IF n = 0 THEN {[fail |-> "div_by_zero", tab |-> <<>>]}
  ELSE {[fail |-> "none", tab |-> t] : t \in [1..m -> 0..(n - 1)]}

gen_table(n, m) ==
  IF m = 0 THEN {[fail |-> "none", tab |-> <<>>]}
  ELSE IF n = 0 THEN {[fail |-> "div_by_zero", tab |-> <<>>]}
  ELSE {[fail |-> "none", tab |-> t] : t \in [1..m -> 0..(n - 1)]}

\* ------------------------------------------------------------- Graph

Graph_new == [vertices |-> {}, edges |-> <<>>]

insert_vertex(gr, id) == [gr EXCEPT !.vertices = @ \cup {id}]

insert_directed_edge(gr, a, b) == [gr EXCEPT !.edges = Append(@, <<a, b>>)]

EdgeSet(gr) == {gr.edges[k] : k \in 1..Len(gr.edges)}

RECURSIVE ReachableFrom(_, _)
ReachableFrom(E, S) ==
  LET T == S \cup {e[2] : e \in {x \in E : x[1] \in S}}
  IN  IF T = S THEN S ELSE ReachableFrom(E, T)

is_acyclic(gr) ==
  \A e \in EdgeSet(gr) : e[1] \notin ReachableFrom(EdgeSet(gr), {e[2]})

\* ------------------------------------------------------ HashMap::new

m_of(kv) == Len(kv)

n_of(kv) == 2 * m_of(kv) + (m_of(kv) \div 12)

\* Option<uint>: <<>> is None, <<x>> is Some(x).
max_length_of(kv) ==
  IF Len(kv) = 0 THEN <<>>
  ELSE LET counts == {get_count(ByteCounter_write(ByteCounter_new, kv[k])) : k \in 1..Len(kv)}
       IN  <<CHOOSE x \in counts : \A y \in counts : y <= x>>

\* The for loop over known_vals, from the k-th key on.
RECURSIVE for_known_vals(_, _, _, _, _)
for_known_vals(gr, kv, k, tab1, tab2) ==
  IF k > Len(kv) THEN [fail |-> "none", g |-> gr]
  ELSE LET state == write(PerfectHashState_new(tab1, tab2, n_of(kv), m_of(kv)), kv[k])
       IN  IF state.fail # "none" THEN [fail |-> state.fail, g |-> gr]
           ELSE IF state.n = 0 THEN [fail |-> "div_by_zero", g |-> gr]
           ELSE LET f1 == get_u(state)
                    f2 == get_v(state)
                IN  for_known_vals(
                      insert_directed_edge(insert_vertex(insert_vertex(gr, f1), f2), f1, f2),
                      kv, k + 1, tab1, tab2)

HashIdle ==
  /\ hstate = PerfectHashState_new(<<>>, <<>>, 1, 0)
  /\ absorbed = <<>>
  /\ h_pc = "idle"
  /\ h_f = <<>>

InitWith(maxm) ==
  /\ known_vals \in SeqsUpTo(Keys, maxm)
  /\ pc = "loop"
  /\ t1 = <<>>
  /\ t2 = <<>>
  /\ g = Graph_new
  /\ acyclic_g = Graph_new
  /\ iters = 0
  /\ HashIdle

Init == InitWith(MaxM)

\* Lines 127-130: a new graph and two new tables.
GenTables ==
  /\ pc = "loop"
  /\ \E r1 \in gen_table(n_of(known_vals), m_of(known_vals)) :
     \E r2 \in gen_table(n_of(known_vals), m_of(known_vals)) :
       IF r1.fail # "none" \/ r2.fail # "none"
       THEN /\ pc' = "panic_div_by_zero"
            /\ UNCHANGED <<t1, t2, g>>
       ELSE /\ pc' = "hash"
            /\ t1' = r1.tab
            /\ t2' = r2.tab
            /\ g' = Graph_new
  /\ UNCHANGED <<known_vals, acyclic_g, iters, hvars>>

\* Lines 132-142: every known key is hashed and entered, then iters += 1.
BuildGraph ==
  /\ pc = "hash"
  /\ LET r == for_known_vals(g, known_vals, 1, t1, t2)
     IN  IF r.fail # "none"
         THEN /\ pc' = "panic_" \o r.fail
              /\ UNCHANGED <<g, iters>>
         ELSE /\ pc' = "check"
              /\ g' = r.g
              /\ iters' = IF iters < MaxIters THEN iters + 1 ELSE iters
  /\ UNCHANGED <<known_vals, t1, t2, acyclic_g, hvars>>

\* Lines 144-147, the graph is acyclic: leave the loop.
Accept ==
  /\ pc = "check"
  /\ is_acyclic(g)
  /\ acyclic_g' = g
  /\ pc' = "done"
  /\ UNCHANGED <<known_vals, t1, t2, g, iters, hvars>>

\* Lines 144-148, the graph has a cycle: the trial's graph and tables go
\* out of scope and the loop starts over.
Reject ==
  /\ pc = "check"
  /\ ~is_acyclic(g)
  /\ pc' = "loop"
  /\ g' = Graph_new
  /\ t1' = <<>>
  /\ t2' = <<>>
  /\ UNCHANGED <<known_vals, acyclic_g, iters, hvars>>

Next == GenTables \/ BuildGraph \/ Accept \/ Reject

Spec == Init /\ [][Next]_vars

\* HashMap::new for at most MaxFewM known keys.
FewInit == InitWith(MaxFewM)

SpecFew == FewInit /\ [][Next]_vars

\* A sequential program takes its next step whenever it has one.
FairSpecFew == SpecFew /\ WF_vars(Next)

\* ------------------------------------- a free-standing accumulator

ConstructionIdle ==
  /\ known_vals = <<>>
  /\ pc = "idle"
  /\ t1 = <<>>
  /\ t2 = <<>>
  /\ g = Graph_new
  /\ acyclic_g = Graph_new
  /\ iters = 0

\* PerfectHashState::new on two tables as gen_table makes them (equally
\* long, entries below n), for n > 0.
HashInit ==
  /\ \E n \in 1..HMaxN : \E len \in 0..HMaxLen :
     \E tab1 \in [1..len -> 0..(n - 1)] : \E tab2 \in [1..len -> 0..(n - 1)] :
       hstate = PerfectHashState_new(tab1, tab2, n, len)
  /\ absorbed = <<>>
  /\ h_pc = "absorbing"
  /\ h_f = <<>>
  /\ ConstructionIdle

\* One call of write with the next chunk of the key's bytes.
Write ==
  /\ h_pc = "absorbing"
  /\ hstate.fail = "none"
  /\ \E chunk \in SeqsUpTo(ByteVals, MaxChunk) :
       /\ Len(absorbed) + Len(chunk) <= MaxAbsorb
       /\ hstate' = write(hstate, chunk)
       /\ absorbed' = absorbed \o chunk
  /\ UNCHANGED <<h_pc, h_f, cvars>>

\* Lines 135-136: f1 and f2 are read.
ReadHash ==
  /\ h_pc = "absorbing"
  /\ hstate.fail = "none"
  /\ h_f' = <<get_u(hstate), get_v(hstate)>>
  /\ h_pc' = "read"
  /\ UNCHANGED <<hstate, absorbed, cvars>>

HashNext == Write \/ ReadHash

HashSpec == HashInit /\ [][HashNext]_vars

\* ------------------------------------------------------------ claims

\* The hash of a key under the tables of the current trial.
KeyState(key) ==
  write(PerfectHashState_new(t1, t2, n_of(known_vals), m_of(known_vals)), key)

\* The slot of the k-th known key under the vertex assignment nodes.
Slot(nodes, k) ==
  (nodes[get_u(KeyState(known_vals[k]))] + nodes[get_v(KeyState(known_vals[k]))])
    % m_of(known_vals)

\* The known keys are pairwise different.
DistinctKeys ==
  \A j, k \in 1..Len(known_vals) : j # k => known_vals[j] # known_vals[k]

\* C1: after a successful construction over a non-empty known key set, the
\* map key -> (g[f1(key)] + g[f2(key)]) mod m is one-to-one on the known
\* keys and onto 0..m-1.  HashMap::new stores no vertex assignment, so the
\* formula asks only that the accepted trial admits one (for pairwise
\* different known keys).
C1_Bijection ==
  (pc = "done" /\ m_of(known_vals) > 0 /\ DistinctKeys) =>
    \E nodes \in [0..(n_of(known_vals) - 1) -> 0..(m_of(known_vals) - 1)] :
      \A j, k \in 1..Len(known_vals) : j # k => Slot(nodes, j) # Slot(nodes, k)

\* C2: every execution of the retry loop ends: construction leaves the loop
\* (or stops with a failure) after finitely many trials.
C2_Terminates == <>(pc \in {"done", "panic_overflow", "panic_div_by_zero"})

\* The edges with the given indices leave some vertex with exactly one
\* edge end (a self-loop puts both its ends on one vertex).
Ends(gr, X, x) ==
  Cardinality({k \in X : gr.edges[k][1] = x}) + Cardinality({k \in X : gr.edges[k][2] = x})

\* No cycle in the graph read as an undirected multigraph: every non-empty
\* set of edges has a leaf.
UndirectedAcyclic(gr) ==
  \A X \in SUBSET (1..Len(gr.edges)) :
    X # {} => \E x \in gr.vertices : Ends(gr, X, x) = 1

NoDuplicatePair(gr) ==
  \A j, k \in 1..Len(gr.edges) :
    j # k => {gr.edges[j][1], gr.edges[j][2]} # {gr.edges[k][1], gr.edges[k][2]}

\* C3: a trial is accepted only if its graph, read as undirected, has no
\* cycle and no two different keys produced the same unordered bucket pair
\* (stated for pairwise different known keys).
C3_AcceptOnlyValid ==
  (pc = "done" /\ DistinctKeys) =>
    UndirectedAcyclic(acyclic_g) /\ NoDuplicatePair(acyclic_g)

\* C4: write never fails with an overflow.
C4_NoOverflowAbort == hstate.fail = "none"

RECURSIVE SumTo(_, _, _)
SumTo(t, b, k) == IF k = 0 THEN 0 ELSE SumTo(t, b, k - 1) + t[k] * b[k]

C9_TableLength ==
  (pc \in {"hash", "check", "done"} /\ m_of(known_vals) > 0) =>
    /\ Len(t1) = max_length_of(known_vals)[1]
    /\ Len(t2) = max_length_of(known_vals)[1]

\* C10: after any number of write calls the accumulator is where one write
\* of all the bytes would have left it, with i = min(bytes absorbed,
\* max_length); it has failed exactly if the one write would have.
C10_ChunkIndependent ==
  h_pc = "absorbing" =>
    LET whole == write(PerfectHashState_new(hstate.t1, hstate.t2, hstate.n, hstate.m),
                       absorbed)
    IN  /\ (hstate.fail = "none") = (whole.fail = "none")
        /\ hstate.fail = "none" =>
             /\ hstate.u = whole.u
             /\ hstate.v = whole.v
             /\ hstate.i = Min(Len(absorbed), hstate.max_length)
             /\ hstate.i <= hstate.max_length

\* More bytes than one call takes were absorbed, by tables of two
\* entries that were both used.
C10_Witness ==
  /\ h_pc = "absorbing"
  /\ hstate.fail = "none"
  /\ Len(absorbed) > MaxChunk
  /\ hstate.max_length = 2
  /\ hstate.i = 2
  /\ hstate.u > hstate.t1[1] * absorbed[1]
  /\ hstate.v > 0

====
